---- MODULE Spec2Model ----
(***************************************************************************)
(* MX RDATA codec of trust-dns (src/rr/rdata/mx.rs): the value type MX,    *)
(* the binary read/emit pair, the zone-file parse and the Display format.  *)
(*                                                                         *)
(* Characters and bytes are their ASCII codes, strings and byte buffers    *)
(* are sequences of codes, a Name is the sequence of its labels.  The      *)
(* collaborators mx.rs calls (BinDecoder, BinEncoder, Name, Token, the     *)
(* lexer) live outside mx.rs and are modelled from their documented        *)
(* contract; u16 parsing and formatting are those of the standard library. *)
(***************************************************************************)
EXTENDS Integers, Sequences, FiniteSets, TLC

\* ------------------------------------------------------------------------
\* Bounds and input sets
\* ------------------------------------------------------------------------

\* most labels of an exchange name
MaxLabels == 2
\* most tokens of a zone-file line handed to parse
MaxTokens == 3

\* 'A' = 65, 'B' = 66, 'a' = 97, 'b' = 98: one upper-case label, its
\* lower-case fold, and a two-character mixed-case label
Labels == { <<65>>, <<97>>, <<97, 66>> }

RECURSIVE NamesOfLen(_)
NamesOfLen(n) ==
    IF n = 0 THEN { <<>> }
    ELSE { <<l>> \o rest : l \in Labels, rest \in NamesOfLen(n - 1) }

Names == UNION { NamesOfLen(n) : n \in 0..MaxLabels }

\* both bytes zero, low byte only, distinct high and low byte, both bytes 255
Preferences == { 0, 16, 258, 65535 }

\* names the message already holds when the RDATA is emitted (the owner
\* name of the record), none for a fresh encoder
PriorNames == { <<<<97>>>>, <<<<97, 66>>, <<97>>>> }

\* bytes that may follow the RDATA in the decoder's buffer
TrailingBytes == { <<0>>, <<7>>, <<192, 0>> }

None == <<>>
Some(x) == <<x>>
IsSome(o) == o # <<>>
Get(o) == o[1]

\* ------------------------------------------------------------------------
\* Results and errors
\* ------------------------------------------------------------------------

NoToken == <<>>
Error(kind, field, token) == [kind |-> kind, field |-> field, token |-> token]
NoError == Error("", "", NoToken)

Ok(v) == [ok |-> TRUE, value |-> Some(v), err |-> NoError]
OkUnit == [ok |-> TRUE, value |-> None, err |-> NoError]
Err(e) == [ok |-> FALSE, value |-> None, err |-> e]

\* ------------------------------------------------------------------------
\* The value type
\* ------------------------------------------------------------------------

MX_new(p, e) == [preference |-> p, exchange |-> e]
preference(mx) == mx.preference
exchange(mx) == mx.exchange

MXValues == { MX_new(p, e) : p \in Preferences, e \in Names }

\* ------------------------------------------------------------------------
\* Name: case folding and wire form
\* ------------------------------------------------------------------------

to_ascii_lowercase(c) == IF c >= 65 /\ c <= 90 THEN c + 32 ELSE c

to_lowercase(name) ==
    [i \in 1..Len(name) |->
        [j \in 1..Len(name[i]) |-> to_ascii_lowercase(name[i][j])]]

\* the uncompressed wire form: length-prefixed labels, then the root's zero
RECURSIVE NameWire(_)
NameWire(name) ==
    IF name = <<>> THEN <<0>>
    ELSE <<Len(Head(name))>> \o Head(name) \o NameWire(Tail(name))

\* ------------------------------------------------------------------------
\* BinEncoder
\* ------------------------------------------------------------------------

BinEncoder_new(canonical) ==
    [bytes |-> <<>>, canonical_names |-> canonical, name_pointers |-> {}]

is_canonical_names(enc) == enc.canonical_names

\* a 16-bit write in network byte order; the sink may reject the write
emit_u16(enc, v, accept) ==
    IF accept
    THEN [ok |-> TRUE,
          enc |-> [enc EXCEPT !.bytes = @ \o <<v \div 256, v % 256>>]]
    ELSE [ok |-> FALSE, enc |-> enc]

\* every label in full, no pointer: the canonical form
RECURSIVE emit_labels_plain(_, _)
emit_labels_plain(enc, labels) ==
    IF labels = <<>> THEN [enc EXCEPT !.bytes = Append(@, 0)]
    ELSE emit_labels_plain(
            [enc EXCEPT !.bytes = @ \o <<Len(Head(labels))>> \o Head(labels)],
            Tail(labels))

\* normal emission: a suffix the message already holds is a two-byte pointer
\* to it, any other suffix is remembered at the offset it is written to
RECURSIVE emit_labels_compressed(_, _)
emit_labels_compressed(enc, labels) ==
    IF labels = <<>> THEN [enc EXCEPT !.bytes = Append(@, 0)]
    ELSE IF \E p \in enc.name_pointers : p.labels = labels
    THEN LET p == CHOOSE q \in enc.name_pointers : q.labels = labels
         IN  [enc EXCEPT !.bytes = @ \o <<192 + (p.loc \div 256), p.loc % 256>>]
    ELSE emit_labels_compressed(
            [enc EXCEPT
                !.name_pointers = @ \cup {[labels |-> labels, loc |-> Len(enc.bytes)]},
                !.bytes = @ \o <<Len(Head(labels))>> \o Head(labels)],
            Tail(labels))

emit_with_lowercase(enc, name, lowercase, accept) ==
    IF ~accept THEN [ok |-> FALSE, enc |-> enc]
    ELSE IF lowercase
    THEN [ok |-> TRUE, enc |-> emit_labels_plain(enc, to_lowercase(name))]
    ELSE [ok |-> TRUE, enc |-> emit_labels_compressed(enc, name)]

\* ------------------------------------------------------------------------
\* BinDecoder
\* ------------------------------------------------------------------------

BinDecoder_new(buffer, index) == [buffer |-> buffer, index |-> index]

Remaining(dec) == Len(dec.buffer) - dec.index

read_u16(dec) ==
    IF Remaining(dec) < 2
    THEN [ok |-> FALSE, value |-> 0, err |-> Error("InsufficientData", "", NoToken),
          dec |-> dec]
    ELSE [ok |-> TRUE,
          value |-> dec.buffer[dec.index + 1] * 256 + dec.buffer[dec.index + 2],
          err |-> NoError,
          dec |-> [dec EXCEPT !.index = @ + 2]]

NameFail(kind) == [ok |-> FALSE, labels |-> <<>>, next |-> 0, kind |-> kind]

\* the labels found at the 0-based offset pos, following at most hops
\* pointers; next is the offset after the name as it stands at pos
RECURSIVE read_labels(_, _, _)
read_labels(buf, pos, hops) ==
    IF pos >= Len(buf) THEN NameFail("InsufficientData")
    ELSE LET b == buf[pos + 1] IN
        IF b = 0 THEN [ok |-> TRUE, labels |-> <<>>, next |-> pos + 1, kind |-> ""]
        ELSE IF b < 64 THEN
            IF pos + 1 + b > Len(buf) THEN NameFail("InsufficientData")
            ELSE LET rest == read_labels(buf, pos + 1 + b, hops) IN
                 IF rest.ok
                 THEN [rest EXCEPT !.labels = <<SubSeq(buf, pos + 2, pos + 1 + b)>> \o @]
                 ELSE rest
        ELSE IF b >= 192 THEN
            IF pos + 2 > Len(buf) THEN NameFail("InsufficientData")
            ELSE LET target == (b - 192) * 256 + buf[pos + 2] IN
                 IF hops = 0 \/ target >= Len(buf) THEN NameFail("MalformedName")
                 ELSE LET rest == read_labels(buf, target, hops - 1) IN
                      IF rest.ok THEN [rest EXCEPT !.next = pos + 2] ELSE rest
        ELSE NameFail("MalformedName")

Name_read(dec) ==
    LET r == read_labels(dec.buffer, dec.index, Len(dec.buffer)) IN
    IF r.ok
    THEN [ok |-> TRUE, value |-> r.labels, err |-> NoError,
          dec |-> [dec EXCEPT !.index = r.next]]
    ELSE [ok |-> FALSE, value |-> <<>>, err |-> Error(r.kind, "", NoToken), dec |-> dec]

\* ------------------------------------------------------------------------
\* mx.rs: read and emit
\* ------------------------------------------------------------------------

\* read falling back to the root name when the name cannot be read
read_default_name(decoder) ==
    LET p == read_u16(decoder) IN
    IF ~p.ok
    THEN [result |-> Err(p.err), decoder |-> p.dec, calls |-> <<"read_u16">>]
    ELSE LET n == Name_read(p.dec) IN
         [result |-> Ok(MX_new(p.value, n.value)), decoder |-> n.dec,
          calls |-> <<"read_u16", "Name::read">>]

\* read insisting that the name ends the buffer
read_to_end(decoder) ==
    LET p == read_u16(decoder) IN
    IF ~p.ok
    THEN [result |-> Err(p.err), decoder |-> p.dec, calls |-> <<"read_u16">>]
    ELSE LET n == Name_read(p.dec) IN
         IF ~n.ok
         THEN [result |-> Err(n.err), decoder |-> n.dec,
               calls |-> <<"read_u16", "Name::read">>]
         ELSE IF Remaining(n.dec) > 0
         THEN [result |-> Err(Error("TrailingData", "", NoToken)), decoder |-> n.dec,
               calls |-> <<"read_u16", "Name::read">>]
         ELSE [result |-> Ok(MX_new(p.value, n.value)), decoder |-> n.dec,
               calls |-> <<"read_u16", "Name::read">>]

read(decoder) ==
    LET p == read_u16(decoder) IN
    IF ~p.ok
    THEN [result |-> Err(p.err), decoder |-> p.dec, calls |-> <<"read_u16">>]
    ELSE LET n == Name_read(p.dec) IN
         IF ~n.ok
         THEN [result |-> Err(n.err), decoder |-> n.dec,
               calls |-> <<"read_u16", "Name::read">>]
         ELSE [result |-> Ok(MX_new(p.value, n.value)), decoder |-> n.dec,
               calls |-> <<"read_u16", "Name::read">>]

\* the three statements of emit (mx.rs 111, 112, 113)
emit_query(encoder) == is_canonical_names(encoder)

emit_preference(encoder, mx, accept) == emit_u16(encoder, preference(mx), accept)

\* emit_exchange with the flag dropped: the name goes out as stored
emit_exchange_as_stored(encoder, mx, queried, accept) ==
    emit_with_lowercase(encoder, exchange(mx), FALSE, accept)

\* emit_exchange asking the encoder again instead of using the local
emit_exchange_requery(encoder, mx, queried, accept) ==
    emit_with_lowercase(encoder, exchange(mx), is_canonical_names(encoder), accept)

emit_exchange(encoder, mx, queried, accept) ==
    emit_with_lowercase(encoder, exchange(mx), queried, accept)

SinkError == Error("EncodeSink", "", NoToken)

\* emit with its two writes in the other order
emit_exchange_first(encoder, mx, sink) ==
    LET flag == is_canonical_names(encoder)
        w1 == emit_with_lowercase(encoder, exchange(mx), flag, sink[1])
    IN  IF ~w1.ok
        THEN [result |-> Err(SinkError), encoder |-> w1.enc,
              calls |-> <<"is_canonical_names", "emit_with_lowercase">>]
        ELSE LET w2 == emit_u16(w1.enc, preference(mx), sink[2]) IN
             [result |-> IF w2.ok THEN OkUnit ELSE Err(SinkError),
              encoder |-> w2.enc,
              calls |-> <<"is_canonical_names", "emit_with_lowercase", "emit_u16">>]

\* sink[i] tells whether the sink accepts the i-th write emit makes
emit(encoder, mx, sink) ==
    LET flag == emit_query(encoder)
        w1 == emit_preference(encoder, mx, sink[1])
    IN  IF ~w1.ok
        THEN [result |-> Err(SinkError), encoder |-> w1.enc,
              calls |-> <<"is_canonical_names", "emit_u16">>]
        ELSE LET w2 == emit_exchange(w1.enc, mx, flag, sink[2]) IN
             [result |-> IF w2.ok THEN OkUnit ELSE Err(SinkError),
              encoder |-> w2.enc,
              calls |-> <<"is_canonical_names", "emit_u16", "emit_with_lowercase">>]

\* ------------------------------------------------------------------------
\* Text: tokens, integers, names
\* ------------------------------------------------------------------------

CharData(s) == [kind |-> "CharData", s |-> s]
Blank == [kind |-> "Blank", s |-> <<>>]
EOL == [kind |-> "EOL", s |-> <<>>]

\* "16" "0" "65535" "65536" "+16" "016" "-1" "" "a" "a." "." "A.aB."
TokenStrings ==
    { <<49, 54>>, <<48>>, <<54, 53, 53, 51, 53>>, <<54, 53, 53, 51, 54>>,
      <<43, 49, 54>>, <<48, 49, 54>>, <<45, 49>>, <<>>,
      <<97>>, <<97, 46>>, <<46>>, <<65, 46, 97, 66, 46>> }

Tokens == { CharData(s) : s \in TokenStrings } \cup { Blank, EOL }

\* the zone's origin: absent, or the name "b."
Origins == { None, Some(<<<<98>>>>) }

\* u16's Display
RECURSIVE fmt_u16(_)
fmt_u16(n) == IF n < 10 THEN <<48 + n>> ELSE fmt_u16(n \div 10) \o <<48 + (n % 10)>>

\* the value of a digit string, -1 for a character that is no digit or a
\* value above u16::MAX
RECURSIVE digits_value(_, _)
digits_value(s, acc) ==
    IF s = <<>> THEN acc
    ELSE IF Head(s) < 48 \/ Head(s) > 57 THEN -1
    ELSE LET v == acc * 10 + (Head(s) - 48) IN
         IF v > 65535 THEN -1 ELSE digits_value(Tail(s), v)

\* u16's FromStr: an optional '+', then one digit or more
from_str_u16(s) ==
    LET digits == IF s # <<>> /\ Head(s) = 43 THEN Tail(s) ELSE s
        v == IF digits = <<>> THEN -1 ELSE digits_value(digits, 0)
    IN  [ok |-> v >= 0, value |-> IF v >= 0 THEN v ELSE 0]

RECURSIVE Split(_, _, _)
Split(s, sep, cur) ==
    IF s = <<>> THEN <<cur>>
    ELSE IF Head(s) = sep THEN <<cur>> \o Split(Tail(s), sep, <<>>)
    ELSE Split(Tail(s), sep, Append(cur, Head(s)))

\* Name's Display: every label followed by a dot, the root a lone dot
RECURSIVE Name_fmt(_)
Name_fmt(name) ==
    IF name = <<>> THEN <<46>>
    ELSE IF Len(name) = 1 THEN Head(name) \o <<46>>
    ELSE Head(name) \o <<46>> \o Name_fmt(Tail(name))

\* Name::parse: dot-separated labels; a text without the trailing dot is
\* relative to the origin and an error without one
Name_parse(s, origin) ==
    IF s = <<46>> THEN Ok(<<>>)
    ELSE LET parts == Split(s, 46, <<>>)
             absolute == Len(parts) >= 2 /\ parts[Len(parts)] = <<>>
             labels == IF absolute THEN SubSeq(parts, 1, Len(parts) - 1)
                       ELSE IF s = <<>> THEN <<>> ELSE parts
         IN  IF \E i \in 1..Len(labels) : labels[i] = <<>>
             THEN Err(Error("Message", "empty label", NoToken))
             ELSE IF absolute THEN Ok(labels)
             ELSE IF origin = None
             THEN Err(Error("Message", "$ORIGIN was not specified", NoToken))
             ELSE Ok(labels \o Get(origin))

IsWord(p) == p # <<>>

\* the lexer on a line of plain words: one CharData per word
tokenize(text) ==
    LET words == SelectSeq(Split(text, 32, <<>>), IsWord)
    IN  [i \in 1..Len(words) |-> CharData(words[i])]

\* ------------------------------------------------------------------------
\* mx.rs: parse and Display
\* ------------------------------------------------------------------------

MissingToken(field) == Error("MissingToken", field, NoToken)
UnexpectedToken(t) == Error("UnexpectedToken", "", Some(t))
ParseIntError == Error("ParseInt", "", NoToken)

\* parse_preference reporting a token of the wrong kind as a bad number
parse_preference_any_kind(t) ==
    IF t = None THEN Err(MissingToken("preference"))
    ELSE LET n == from_str_u16(Get(t).s) IN
         IF n.ok THEN Ok(n.value) ELSE Err(ParseIntError)

\* mx.rs 121-127
parse_preference(t) ==
    IF t = None THEN Err(MissingToken("preference"))
    ELSE IF Get(t).kind = "CharData"
    THEN LET n == from_str_u16(Get(t).s) IN
         IF n.ok THEN Ok(n.value) ELSE Err(ParseIntError)
    ELSE Err(UnexpectedToken(Get(t)))

\* parse_exchange with the field name of the first block left in
parse_exchange_misnamed(t, origin) ==
    IF t = None THEN Err(MissingToken("preference"))
    ELSE IF Get(t).kind = "CharData" THEN Name_parse(Get(t).s, origin)
    ELSE Err(UnexpectedToken(Get(t)))

\* mx.rs 128-134
parse_exchange(t, origin) ==
    IF t = None THEN Err(MissingToken("exchange"))
    ELSE IF Get(t).kind = "CharData" THEN Name_parse(Get(t).s, origin)
    ELSE Err(UnexpectedToken(Get(t)))

\* the iterator's next() at position i
next_token(tokens, i) == IF i <= Len(tokens) THEN Some(tokens[i]) ELSE None

\* parse taking both tokens before it looks at either result
parse_exchange_checked_first(tokens, origin) ==
    LET p == parse_preference(next_token(tokens, 1))
        e == parse_exchange(next_token(tokens, 2), origin)
    IN  IF ~e.ok THEN [result |-> Err(e.err), examined |-> 2]
        ELSE IF ~p.ok THEN [result |-> Err(p.err), examined |-> 2]
        ELSE [result |-> Ok(MX_new(Get(p.value), Get(e.value))), examined |-> 2]

\* parse rejecting a line that holds more than the two fields
parse_no_extra_tokens(tokens, origin) ==
    LET p == parse_preference(next_token(tokens, 1)) IN
    IF ~p.ok THEN [result |-> Err(p.err), examined |-> 1]
    ELSE LET e == parse_exchange(next_token(tokens, 2), origin) IN
         IF ~e.ok THEN [result |-> Err(e.err), examined |-> 2]
         ELSE IF Len(tokens) > 2
         THEN [result |-> Err(UnexpectedToken(tokens[3])), examined |-> 3]
         ELSE [result |-> Ok(MX_new(Get(p.value), Get(e.value))), examined |-> 2]

\* examined is the number of next() calls parse made
parse(tokens, origin) ==
    LET p == parse_preference(next_token(tokens, 1)) IN
    IF ~p.ok THEN [result |-> Err(p.err), examined |-> 1]
    ELSE LET e == parse_exchange(next_token(tokens, 2), origin) IN
         IF ~e.ok THEN [result |-> Err(e.err), examined |-> 2]
         ELSE [result |-> Ok(MX_new(Get(p.value), Get(e.value))), examined |-> 2]

\* Display with the two fields in the other order
fmt_exchange_first(mx) == Name_fmt(mx.exchange) \o <<32>> \o fmt_u16(mx.preference)

fmt(mx) == fmt_u16(mx.preference) \o <<32>> \o Name_fmt(mx.exchange)

\* ------------------------------------------------------------------------
\* State
\* ------------------------------------------------------------------------

VARIABLES
    session,        \* "wire": a message is written and read back; "zone": a
                    \* zone file is parsed; "steps": emit statement by statement
    encoder,        \* the BinEncoder of the message being written
    rdata_start,    \* offset of the encoder at which the RDATA begins
    enc_before,     \* Some(encoder as it was when emit was called)
    emitted,        \* Some(mx) once emit was called with mx
    emit_sink,      \* whether the sink accepts emit's first and second write
    emit_result,    \* Some(result of that emit)
    emit_calls,     \* the encoder calls that emit made, in order
    decoder,        \* Some(BinDecoder) positioned at the RDATA
    framing,        \* how the decoder's buffer derives from the encoder's bytes
    dec_before,     \* Some(decoder as it was when read was called)
    read_result,    \* Some(result of that read)
    read_calls,     \* the decoder calls that read made, in order
    tokens,         \* the tokens of the zone-file line
    origin,         \* the origin handed to parse
    parse_result,   \* Some(result of parse on tokens and origin)
    examined,       \* the number of tokens that parse took from the line
    value,          \* Some(mx) once mx was formatted
    text,           \* Some(the Display text of value)
    lexed,          \* TRUE when tokens are the lexer's output on text
    pc,             \* the statement of emit that runs next
    queried,        \* emit's local is_canonical_names
    flag_changed    \* TRUE when the encoder's flag was set since emit began

encVars == <<encoder, rdata_start, enc_before, emitted, emit_sink, emit_result,
             emit_calls>>
decVars == <<decoder, framing, dec_before, read_result, read_calls>>
zoneVars == <<tokens, origin, parse_result, examined, value, text, lexed>>
stepVars == <<pc, queried, flag_changed>>

vars == <<session, encVars, decVars, zoneVars, stepVars>>

NoFraming == [cut |-> 0, trailing |-> <<>>]
NoSink == [i \in 1..2 |-> TRUE]

InitRest ==
    /\ encoder = BinEncoder_new(FALSE)
    /\ rdata_start = 0
    /\ enc_before = None
    /\ emitted = None
    /\ emit_sink = NoSink
    /\ emit_result = None
    /\ emit_calls = <<>>
    /\ decoder = None
    /\ framing = NoFraming
    /\ dec_before = None
    /\ read_result = None
    /\ read_calls = <<>>
    /\ tokens = <<>>
    /\ origin = None
    /\ parse_result = None
    /\ examined = 0
    /\ value = None
    /\ text = None
    /\ lexed = FALSE
    /\ pc = "idle"
    /\ queried = FALSE
    /\ flag_changed = FALSE

\* the wire codec and the zone-file parser share no state: a behaviour
\* runs one of them
Init ==
    /\ session \in {"wire", "zone"}
    /\ InitRest

ResetDecoder ==
    /\ decoder' = None
    /\ framing' = NoFraming
    /\ dec_before' = None
    /\ read_result' = None
    /\ read_calls' = <<>>

\* ------------------------------------------------------------------------
\* Wire actions
\* ------------------------------------------------------------------------

\* a message writer starts a message: BinEncoder::new, set_canonical_names,
\* and the part of the message that precedes the RDATA
NewEncoder(canonical, prior) ==
    /\ session \in {"wire", "steps"}
    /\ pc = "idle"
    /\ encoder' = IF IsSome(prior)
                  THEN emit_labels_compressed(BinEncoder_new(canonical), Get(prior))
                  ELSE BinEncoder_new(canonical)
    /\ rdata_start' = Len(encoder'.bytes)
    /\ enc_before' = None
    /\ emitted' = None
    /\ emit_sink' = NoSink
    /\ emit_result' = None
    /\ emit_calls' = <<>>
    /\ flag_changed' = FALSE
    /\ ResetDecoder
    /\ UNCHANGED <<session, zoneVars, pc, queried>>

\* emit(&mut encoder, &mx), the one RDATA of this message
Emit(mx, sink) ==
    /\ session = "wire"
    /\ emitted = None
    /\ LET r == emit(encoder, mx, sink) IN
        /\ encoder' = r.encoder
        /\ emit_result' = Some(r.result)
        /\ emit_calls' = r.calls
    /\ enc_before' = Some(encoder)
    /\ emitted' = Some(mx)
    /\ emit_sink' = sink
    /\ ResetDecoder
    /\ UNCHANGED <<session, rdata_start, zoneVars, stepVars>>

\* a message parser positions a decoder at the RDATA: over the bytes written,
\* over a truncation of them, or over them and the bytes of what follows
NewDecoder(cut, trailing) ==
    /\ session = "wire"
    /\ cut >= rdata_start
    /\ trailing # <<>> => cut = Len(encoder.bytes)
    /\ decoder' = Some(BinDecoder_new(SubSeq(encoder.bytes, 1, cut) \o trailing,
                                      rdata_start))
    /\ framing' = [cut |-> cut, trailing |-> trailing]
    /\ dec_before' = None
    /\ read_result' = None
    /\ read_calls' = <<>>
    /\ UNCHANGED <<session, encVars, zoneVars, stepVars>>

\* read(&mut decoder)
Read ==
    /\ session = "wire"
    /\ IsSome(decoder)
    /\ read_result = None
    /\ LET r == read(Get(decoder)) IN
        /\ decoder' = Some(r.decoder)
        /\ read_result' = Some(r.result)
        /\ read_calls' = r.calls
    /\ dec_before' = decoder
    /\ UNCHANGED <<session, framing, encVars, zoneVars, stepVars>>

\* ------------------------------------------------------------------------
\* Zone-file actions
\* ------------------------------------------------------------------------

\* the next line of the zone file begins
NewLine ==
    /\ session = "zone"
    /\ tokens # <<>> \/ IsSome(text) \/ IsSome(parse_result)
    /\ tokens' = <<>>
    /\ origin' = None
    /\ parse_result' = None
    /\ examined' = 0
    /\ value' = None
    /\ text' = None
    /\ lexed' = FALSE
    /\ UNCHANGED <<session, encVars, decVars, stepVars>>

\* the lexer hands over the next token of the line
LexToken(t) ==
    /\ session = "zone"
    /\ text = None
    /\ parse_result = None
    /\ Len(tokens) < MaxTokens
    /\ tokens' = Append(tokens, t)
    /\ UNCHANGED <<session, origin, parse_result, examined, value, text, lexed,
                   encVars, decVars, stepVars>>

\* format!("{}", mx)
Format(mx) ==
    /\ session = "zone"
    /\ tokens = <<>>
    /\ text = None
    /\ parse_result = None
    /\ value' = Some(mx)
    /\ text' = Some(fmt(mx))
    /\ UNCHANGED <<session, tokens, origin, parse_result, examined, lexed,
                   encVars, decVars, stepVars>>

\* the lexer runs on the formatted text
Tokenize ==
    /\ session = "zone"
    /\ IsSome(text)
    /\ ~lexed
    /\ tokens' = tokenize(Get(text))
    /\ lexed' = TRUE
    /\ UNCHANGED <<session, origin, parse_result, examined, value, text,
                   encVars, decVars, stepVars>>

\* parse(&tokens, origin)
Parse(o) ==
    /\ session = "zone"
    /\ parse_result = None
    /\ IsSome(text) => lexed
    /\ LET r == parse(tokens, o) IN
        /\ parse_result' = Some(r.result)
        /\ examined' = r.examined
    /\ origin' = o
    /\ UNCHANGED <<session, tokens, value, text, lexed, encVars, decVars, stepVars>>

Next ==
    \/ \E canonical \in BOOLEAN, prior \in {None} \cup {Some(n) : n \in PriorNames} :
          NewEncoder(canonical, prior)
    \/ \E mx \in MXValues, sink \in [1..2 -> BOOLEAN] : Emit(mx, sink)
    \/ \E cut \in 0..Len(encoder.bytes), trailing \in {<<>>} \cup TrailingBytes :
          NewDecoder(cut, trailing)
    \/ Read
    \/ NewLine
    \/ \E t \in Tokens : LexToken(t)
    \/ \E mx \in MXValues : Format(mx)
    \/ Tokenize
    \/ \E o \in Origins : Parse(o)

Spec == Init /\ [][Next]_vars

\* ------------------------------------------------------------------------
\* emit statement by statement.  emit holds the encoder by &mut and hands it
\* to emit_u16 and emit_with_lowercase, which are not mx.rs's code: the flag
\* may be set (set_canonical_names) between two statements of emit.
\* ------------------------------------------------------------------------

InitSteps ==
    /\ session = "steps"
    /\ InitRest

EmitCall(mx, sink) ==
    /\ pc = "idle"
    /\ emitted = None
    /\ emitted' = Some(mx)
    /\ emit_sink' = sink
    /\ enc_before' = Some(encoder)
    /\ emit_calls' = <<>>
    /\ flag_changed' = FALSE
    /\ pc' = "query"
    /\ UNCHANGED <<session, encoder, rdata_start, emit_result, queried,
                   decVars, zoneVars>>

\* mx.rs 111
EmitQuery ==
    /\ pc = "query"
    /\ queried' = emit_query(encoder)
    /\ emit_calls' = Append(emit_calls, "is_canonical_names")
    /\ pc' = "preference"
    /\ UNCHANGED <<session, encoder, rdata_start, enc_before, emitted, emit_sink,
                   emit_result, flag_changed, decVars, zoneVars>>

\* mx.rs 112
EmitPreference ==
    /\ pc = "preference"
    /\ LET w == emit_preference(encoder, Get(emitted), emit_sink[1]) IN
        /\ encoder' = w.enc
        /\ emit_result' = IF w.ok THEN None ELSE Some(Err(SinkError))
        /\ pc' = IF w.ok THEN "exchange" ELSE "done"
    /\ emit_calls' = Append(emit_calls, "emit_u16")
    /\ UNCHANGED <<session, rdata_start, enc_before, emitted, emit_sink, queried,
                   flag_changed, decVars, zoneVars>>

\* mx.rs 113-114
EmitExchange ==
    /\ pc = "exchange"
    /\ LET w == emit_exchange(encoder, Get(emitted), queried, emit_sink[2]) IN
        /\ encoder' = w.enc
        /\ emit_result' = IF w.ok THEN Some(OkUnit) ELSE Some(Err(SinkError))
    /\ pc' = "done"
    /\ emit_calls' = Append(emit_calls, "emit_with_lowercase")
    /\ UNCHANGED <<session, rdata_start, enc_before, emitted, emit_sink, queried,
                   flag_changed, decVars, zoneVars>>

\* BinEncoder::set_canonical_names
SetCanonicalNames(b) ==
    /\ b # encoder.canonical_names
    /\ encoder' = [encoder EXCEPT !.canonical_names = b]
    /\ flag_changed' = (flag_changed \/ pc \in {"preference", "exchange"})
    /\ UNCHANGED <<session, rdata_start, enc_before, emitted, emit_sink, emit_result,
                   emit_calls, pc, queried, decVars, zoneVars>>

\* the message is done with; the next one starts
EmitReturn ==
    /\ pc = "done"
    /\ pc' = "idle"
    /\ UNCHANGED <<session, encVars, queried, flag_changed, decVars, zoneVars>>

NextSteps ==
    \/ \E canonical \in BOOLEAN, prior \in {None} \cup {Some(n) : n \in PriorNames} :
          NewEncoder(canonical, prior)
    \/ \E mx \in MXValues, sink \in [1..2 -> BOOLEAN] : EmitCall(mx, sink)
    \/ EmitQuery
    \/ EmitPreference
    \/ EmitExchange
    \/ EmitReturn
    \/ \E b \in BOOLEAN : SetCanonicalNames(b)

SpecSteps == InitSteps /\ [][NextSteps]_vars

\* ------------------------------------------------------------------------
\* Properties
\* ------------------------------------------------------------------------

EmitDone == IsSome(emit_result)
EmitOk == IsSome(emit_result) /\ Get(emit_result).ok
ReadDone == IsSome(read_result)
ParseDone == IsSome(parse_result)

HasUpper(name) ==
    \E i \in 1..Len(name) : \E j \in 1..Len(name[i]) : name[i][j] \in 65..90

\* got is name with every upper-case ASCII letter lowered, label for label
IsFoldOf(got, name) ==
    /\ Len(got) = Len(name)
    /\ \A i \in 1..Len(name) :
        /\ Len(got[i]) = Len(name[i])
        /\ \A j \in 1..Len(name[i]) :
            got[i][j] = IF name[i][j] \in 65..90 THEN name[i][j] + 32 ELSE name[i][j]

FreshEncoder(enc) == enc.bytes = <<>> /\ enc.name_pointers = {}

\* the decoder was put over exactly the bytes of the encoder
WholeBuffer == framing = [cut |-> Len(encoder.bytes), trailing |-> <<>>]

\* C1: an MX emitted into a fresh encoder and read back over the bytes
\* produced is read successfully; without canonical names the value read is
\* the value emitted, with canonical names it has the same preference and
\* the exchange folded to lower case, label structure unchanged.
C1_RoundTrip ==
    (session = "wire" /\ ReadDone /\ EmitOk /\ WholeBuffer
        /\ FreshEncoder(Get(enc_before)))
    => LET r == Get(read_result)
           mx == Get(emitted)
       IN  /\ r.ok
           /\ IF Get(enc_before).canonical_names
              THEN /\ Get(r.value).preference = mx.preference
                   /\ IsFoldOf(Get(r.value).exchange, mx.exchange)
              ELSE Get(r.value) = mx

C1_Witness ==
    /\ session = "wire" /\ ReadDone /\ EmitOk /\ WholeBuffer
    /\ FreshEncoder(Get(enc_before))
    /\ Get(enc_before).canonical_names
    /\ HasUpper(Get(emitted).exchange)
    /\ Len(Get(emitted).exchange) = 2
    /\ Get(read_result).ok

\* the bytes the name emission appends for the exchange once the preference
\* is written
ExchangeBytes(before, mx) ==
    LET p == mx.preference
        afterPref == [before EXCEPT !.bytes = @ \o <<p \div 256, p % 256>>]
        w == emit_with_lowercase(afterPref, mx.exchange, before.canonical_names, TRUE)
    IN  SubSeq(w.enc.bytes, Len(afterPref.bytes) + 1, Len(w.enc.bytes))

\* C2: a successful emit, in either mode, appends 2 + (wire length of the
\* exchange) bytes: the preference, high byte first, then the bytes of the
\* exchange name; what the encoder held before stays as it was.
C2_FieldOrder ==
    (session = "wire" /\ EmitOk)
    => LET before == Get(enc_before)
           mx == Get(emitted)
           n == Len(before.bytes)
           appended == SubSeq(encoder.bytes, n + 1, Len(encoder.bytes))
           name == ExchangeBytes(before, mx)
       IN  /\ SubSeq(encoder.bytes, 1, n) = before.bytes
           /\ Len(appended) = 2 + Len(name)
           /\ appended[1] = mx.preference \div 256
           /\ appended[2] = mx.preference % 256
           /\ SubSeq(appended, 3, Len(appended)) = name
           /\ before.canonical_names => name = NameWire(to_lowercase(mx.exchange))
           /\ (~before.canonical_names /\ before.name_pointers = {})
                => name = NameWire(mx.exchange)

C2_Witness ==
    /\ session = "wire" /\ EmitOk
    /\ Get(emitted).preference = 258
    /\ Len(Get(emitted).exchange) = 2
    /\ ~Get(enc_before).canonical_names
    /\ Len(encoder.bytes) > Len(Get(enc_before).bytes) + 2

\* the decoder's buffer ends after the two preference bytes and before the
\* end of a non-root exchange name
CutInsideName ==
    /\ EmitOk
    /\ Get(emitted).exchange # <<>>
    /\ framing.trailing = <<>>
    /\ framing.cut >= rdata_start + 2
    /\ framing.cut < Len(encoder.bytes)

\* C3: read with fewer than 2 bytes left fails with the truncation error;
\* read over the preference and an incomplete non-root exchange name fails
\* with a truncation or malformed-name error; neither returns a value.
C3_TruncatedInput ==
    (session = "wire" /\ ReadDone)
    => LET r == Get(read_result) IN
       /\ Remaining(Get(dec_before)) < 2
            => (~r.ok /\ r.value = None /\ r.err.kind = "InsufficientData")
       /\ CutInsideName
            => (~r.ok /\ r.value = None
                /\ r.err.kind \in {"InsufficientData", "MalformedName"})

C3_Witness ==
    /\ session = "wire" /\ ReadDone /\ CutInsideName
    /\ framing.cut > rdata_start + 2
    /\ ~Get(read_result).ok

\* the token is character data that holds a u16
IsPreference(t) == t.kind = "CharData" /\ from_str_u16(t.s).ok

\* C4 as claimed: parse of no token fails with MissingToken("preference"),
\* parse of exactly one token fails with MissingToken("exchange").
C4_AnySingleToken ==
    (session = "zone" /\ ParseDone)
    => /\ tokens = <<>> => Get(parse_result) = Err(MissingToken("preference"))
       /\ Len(tokens) = 1 => Get(parse_result) = Err(MissingToken("exchange"))

\* C4: parse of no token fails with MissingToken("preference"); parse of
\* exactly one token, character data that holds a u16, fails with
\* MissingToken("exchange").
C4_MissingToken ==
    (session = "zone" /\ ParseDone)
    => /\ tokens = <<>> => Get(parse_result) = Err(MissingToken("preference"))
       /\ (Len(tokens) = 1 /\ IsPreference(tokens[1]))
            => Get(parse_result) = Err(MissingToken("exchange"))

C4_Witness ==
    /\ session = "zone" /\ ParseDone
    /\ Len(tokens) = 1
    /\ Get(parse_result) = Err(MissingToken("exchange"))

\* "16 mail.example.com."
ExampleText ==
    <<49, 54, 32, 109, 97, 105, 108, 46, 101, 120, 97, 109, 112, 108, 101, 46,
      99, 111, 109, 46>>

ExampleValue ==
    MX_new(16, << <<109, 97, 105, 108>>, <<101, 120, 97, 109, 112, 108, 101>>,
                  <<99, 111, 109>> >>)

\* C5: the text of an MX is its preference in decimal, a space and the
\* absolute exchange name; lexing that text and parsing the tokens, with an
\* origin or without, succeeds and the value parsed has the same text.
C5_ParseFormatInverse ==
    /\ fmt(ExampleValue) = ExampleText
    /\ (session = "zone" /\ ParseDone /\ lexed)
        => LET r == Get(parse_result)
               mx == Get(value)
           IN  /\ Get(text) = fmt_u16(mx.preference) \o <<32>> \o Name_fmt(mx.exchange)
               /\ r.ok
               /\ fmt(Get(r.value)) = Get(text)

C5_Witness ==
    /\ session = "zone" /\ ParseDone /\ lexed
    /\ IsSome(origin)
    /\ Len(Get(value).exchange) = 2
    /\ Get(parse_result).ok

\* C6 as claimed: a token in the preference or in the exchange position that
\* is not character data makes parse fail with UnexpectedToken of that token;
\* a preference that is character data but no u16 makes it fail with the
\* numeric error.
C6_EitherPosition ==
    (session = "zone" /\ ParseDone)
    => /\ \A i \in 1..2 :
            (i <= Len(tokens) /\ tokens[i].kind # "CharData")
                => Get(parse_result) = Err(UnexpectedToken(tokens[i]))
       /\ (tokens # <<>> /\ tokens[1].kind = "CharData" /\ ~from_str_u16(tokens[1].s).ok)
            => Get(parse_result) = Err(ParseIntError)

\* C6: a preference token that is not character data makes parse fail with
\* UnexpectedToken of that token; so does an exchange token that is not
\* character data, when the preference token holds a u16; a preference that
\* is character data but no u16 makes parse fail with the numeric error; no
\* value is returned in any of these cases.
C6_ErrorClassification ==
    (session = "zone" /\ ParseDone)
    => LET r == Get(parse_result) IN
       /\ (tokens # <<>> /\ tokens[1].kind # "CharData")
            => r = Err(UnexpectedToken(tokens[1]))
       /\ (Len(tokens) >= 2 /\ IsPreference(tokens[1]) /\ tokens[2].kind # "CharData")
            => r = Err(UnexpectedToken(tokens[2]))
       /\ (tokens # <<>> /\ tokens[1].kind = "CharData" /\ ~from_str_u16(tokens[1].s).ok)
            => r = Err(ParseIntError)

C6_Witness ==
    /\ session = "zone" /\ ParseDone
    /\ Len(tokens) >= 2
    /\ Get(parse_result) = Err(UnexpectedToken(tokens[2]))

CallsInOrder == <<"is_canonical_names", "emit_u16", "emit_with_lowercase">>

\* C7: emit asks the encoder for the flag once and before it writes a byte,
\* then writes the preference, then emits the exchange under the value it got,
\* whatever the encoder's flag has become since.
C7_QueryOnce ==
    (session = "steps" /\ pc # "idle" /\ IsSome(emitted))
    => LET before == Get(enc_before)
           mx == Get(emitted)
           p == mx.preference
           afterPref == [before EXCEPT !.bytes = @ \o <<p \div 256, p % 256>>]
           \* emit as one step, under the flag as it stood at the query
           atomic == emit([before EXCEPT !.canonical_names = queried], mx, emit_sink)
       IN  /\ pc = "query" => (emit_calls = <<>> /\ encoder.bytes = before.bytes)
           /\ pc = "preference"
                => (emit_calls = SubSeq(CallsInOrder, 1, 1)
                    /\ encoder.bytes = before.bytes
                    /\ (~flag_changed => queried = encoder.canonical_names))
           /\ pc = "exchange"
                => (emit_calls = SubSeq(CallsInOrder, 1, 2)
                    /\ encoder.bytes = afterPref.bytes)
           /\ (pc = "done" /\ EmitOk)
                => (emit_calls = CallsInOrder
                    /\ encoder.bytes =
                        emit_with_lowercase(afterPref, mx.exchange, queried, TRUE).enc.bytes)
           /\ pc = "done"
                => (/\ encoder.bytes = atomic.encoder.bytes
                    /\ encoder.name_pointers = atomic.encoder.name_pointers
                    /\ Get(emit_result) = atomic.result
                    /\ emit_calls = atomic.calls)

C7_Witness ==
    /\ session = "steps" /\ pc = "done" /\ EmitOk
    /\ flag_changed
    /\ encoder.canonical_names # queried
    /\ HasUpper(Get(emitted).exchange)

IsMX(v) ==
    /\ DOMAIN v = {"preference", "exchange"}
    /\ v.preference \in 0..65535
    /\ v.exchange \in Seq(Seq(0..255))

\* a result is a value and no error, or an error and no value
ValueOrError(r) ==
    \/ r.ok /\ IsSome(r.value) /\ IsMX(Get(r.value)) /\ r.err = NoError
    \/ ~r.ok /\ r.value = None /\ r.err.kind # ""

UnitOrError(r) ==
    \/ r.ok /\ r.value = None /\ r.err = NoError
    \/ ~r.ok /\ r.value = None /\ r.err.kind # ""

\* the error of the preference field alone, None when the token holds a u16
PreferenceError(ts) ==
    IF ts = <<>> THEN Some(MissingToken("preference"))
    ELSE IF ts[1].kind # "CharData" THEN Some(UnexpectedToken(ts[1]))
    ELSE IF ~from_str_u16(ts[1].s).ok THEN Some(ParseIntError)
    ELSE None

\* C8: read whose 16-bit read fails returns that error and never reads the
\* name; parse whose preference is missing, of the wrong kind or no number
\* returns the preference's error and never takes the second token; emit
\* whose preference write fails never emits the exchange; and every result
\* is a whole value or an error.
C8_EarlyReturn ==
    /\ (session = "wire" /\ ReadDone)
        => LET r == Get(read_result)
               first == read_u16(Get(dec_before))
           IN  /\ ValueOrError(r)
               /\ ~first.ok => (r = Err(first.err) /\ read_calls = <<"read_u16">>)
    /\ (session = "wire" /\ EmitDone)
        => /\ UnitOrError(Get(emit_result))
           /\ ~emit_sink[1]
                => (/\ ~Get(emit_result).ok
                    /\ emit_calls = SubSeq(CallsInOrder, 1, 2)
                    /\ encoder.bytes = Get(enc_before).bytes)
    /\ (session = "zone" /\ ParseDone)
        => /\ ValueOrError(Get(parse_result))
           /\ IsSome(PreferenceError(tokens))
                => (/\ Get(parse_result) = Err(Get(PreferenceError(tokens)))
                    /\ examined = 1)

C8_Witness ==
    /\ session = "zone" /\ ParseDone
    /\ Len(tokens) >= 2
    /\ tokens[2].kind # "CharData"
    /\ Get(parse_result) = Err(ParseIntError)

\* the decoder's buffer without the bytes that follow the RDATA
WithoutTrailing(dec) ==
    [dec EXCEPT !.buffer = SubSeq(@, 1, Len(@) - Len(framing.trailing))]

\* C9: a successful read leaves the buffer alone and moves the cursor by 2
\* and by what the name read consumes; bytes after the exchange name change
\* neither the result nor where the cursor ends, which is at the first of
\* them.
C9_CursorAdvance ==
    (session = "wire" /\ ReadDone)
    => LET d0 == Get(dec_before)
           d1 == Get(decoder)
           r == Get(read_result)
           name == Name_read([d0 EXCEPT !.index = @ + 2])
           short == read(WithoutTrailing(d0))
       IN  /\ d1.buffer = d0.buffer
           /\ d1.buffer = SubSeq(encoder.bytes, 1, framing.cut) \o framing.trailing
           /\ r.ok => (/\ name.ok
                       /\ name.dec.index > d0.index + 2
                       /\ d1.index = d0.index + 2 + (name.dec.index - (d0.index + 2)))
           /\ short.result.ok
                => (/\ r = short.result
                    /\ d1.index = short.decoder.index)
           /\ (EmitOk /\ framing.cut = Len(encoder.bytes))
                => (r.ok /\ d1.index = framing.cut)

C9_Witness ==
    /\ session = "wire" /\ ReadDone /\ EmitOk
    /\ framing.trailing # <<>>
    /\ Get(read_result).ok
    /\ Get(decoder).index = framing.cut
    /\ Get(decoder).index < Len(Get(decoder).buffer)

\* C10: the outcome of parse on two tokens or more is its outcome on the
\* first two: the tokens from the third on, of whatever kind, are not taken.
C10_Positional ==
    (session = "zone" /\ ParseDone /\ Len(tokens) >= 2)
    => /\ Get(parse_result) = parse(SubSeq(tokens, 1, 2), origin).result
       /\ examined <= 2

C10_Witness ==
    /\ session = "zone" /\ ParseDone
    /\ Len(tokens) = 3
    /\ tokens[3].kind # "CharData"
    /\ Get(parse_result).ok

====
